---- MODULE Spec2Model ----
(***************************************************************************)
(* Model of the steam-killer daemon (danisztls/steam-killer).              *)
(*                                                                         *)
(* Two programs are modelled: the package src/steam_killer/__init__.py     *)
(* (script = "package") and the older single-file script                   *)
(* src/steam-killer.py (script = "legacy").  The environment (the clock,   *)
(* the process table, the PID file, the notification command) is           *)
(* nondeterministic.                                                       *)
(*                                                                         *)
(* The clock is kept at the resolution the code reads it: weekday and      *)
(* hour.  Minutes and seconds are not tracked: calc_time_to_end replaces   *)
(* only the hour of "now", so its result is a whole number of hours        *)
(* whatever the minute and second are.                                     *)
(***************************************************************************)
EXTENDS Integers, Sequences, FiniteSets, TLC

\* ---------------------------------------------------------------- bounds
MaxPid == 2        \* PIDs the process table ranges over
MaxQueue == 1      \* filesystem events waiting in the observer's queue

\* ------------------------------------------------------------- constants
DaysPerWeek == 7
HoursPerDay == 24
SecondsPerHour == 3600
SecondsPerMinute == 60
SATURDAY == 5
LEGACY_HOUR_START == 6
LEGACY_HOUR_END == 18
PROC_TERM_TIMEOUT == 10
ALLOWED_PERIOD == [weekday |-> 5, hour_start |-> 6, hour_end |-> 18]
STEAM_PIDFILE == "steam.pid"
STEAM_NAME == "steam"
\* The name of any other program.  The comparison of check_proc is exact, so
\* a name that differs from "steam" only in case stands for them all.
OTHER_NAME == "Steam"

PIDs == 1..MaxPid
Weekdays == 0..(DaysPerWeek - 1)
Hours == 0..(HoursPerDay - 1)
Instants == [weekday : Weekdays, hour : Hours]
\* The hours at which the model reads the clock: both sides of each
\* comparison of check_time (6 and 18).
ClockHours == {5, 6, 18, 19}
\* The days on which the model reads the clock: Friday (the day
\* calc_time_to_end aims at), Saturday (the day of the window), Sunday, and
\* Monday for the other days of the week.
ClockDays == {0, 4, 5, 6}
ClockInstants == [weekday : ClockDays, hour : ClockHours]
\* Python's None is the empty set, a value x is {x}.
None == {}
Some(x) == {x}
The(o) == CHOOSE x \in o : TRUE

\* ------------------------------------------------------- pure functions

\* Mutant of check_time: the end hour is exclusive.
check_time_exclusive(t, weekday, hour_start, hour_end) ==
    (t.weekday = weekday) /\ (t.hour >= hour_start) /\ (t.hour < hour_end)

\* check_time of the package: TRUE means "inside the allowed period".
check_time(t, weekday, hour_start, hour_end) ==
    LET is_allowed_day == (t.weekday = weekday)
        is_allowed_time == (t.hour >= hour_start) /\ (t.hour <= hour_end)
    IN  is_allowed_day /\ is_allowed_time

\* check_time of the legacy script: TRUE means "kill the process".
legacy_check_time(t) ==
    LET is_saturday == (t.weekday = SATURDAY)
        is_daytime == (t.hour >= LEGACY_HOUR_START) /\ (t.hour <= LEGACY_HOUR_END)
    IN  ~(is_saturday /\ is_daytime)

\* dateutil: relativedelta(weekday=n) with an integer n is weekdays[n],
\* a Python tuple index, so -1 is the last entry (Sunday).
relativedelta_weekday(n) == n % DaysPerWeek

\* now + relativedelta(weekday=wd, hour=h): the hour of "now" is replaced by
\* h, then the date moves forward to the first day whose weekday is wd,
\* today included.
relativedelta_add(t, wd, h) ==
    LET jumpdays == (DaysPerWeek - t.weekday + wd) % DaysPerWeek
    IN  [weekday |-> (t.weekday + jumpdays) % DaysPerWeek, hour |-> h, jumpdays |-> jumpdays]

\* calc_time_to_end: seconds between "now" and the computed end.
calc_time_to_end_for(t, ap) ==
    LET end == relativedelta_add(t, relativedelta_weekday(ap.weekday - 1), ap.hour_end)
    IN  (end.jumpdays * HoursPerDay + (end.hour - t.hour)) * SecondsPerHour

calc_time_to_end(t) == calc_time_to_end_for(t, ALLOWED_PERIOD)

\* psutil.pid_exists on the process table.
pid_exists(table, p) == p \in DOMAIN table /\ table[p] # "none"

\* Mutant of name_matches: the name is not compared.
name_matches_any(table, p, name) == table[p] # "none"

\* check_proc, lines after pid_exists: the name of the process, compared
\* with ==.
name_matches(table, p, name) == table[p] = name

\* The hour after t.
NextHour(t) ==
    IF t.hour + 1 < HoursPerDay
    THEN [weekday |-> t.weekday, hour |-> t.hour + 1]
    ELSE [weekday |-> (t.weekday + 1) % DaysPerWeek, hour |-> 0]

\* The first clock reading after t.
NextInstant(t) ==
    LET later == {h \in ClockHours : h > t.hour}
        days == {d \in ClockDays : d > t.weekday}
        first(S) == CHOOSE h \in S : \A g \in S : h <= g
    IN  IF later # {}
        THEN [weekday |-> t.weekday, hour |-> first(later)]
        ELSE [weekday |-> first(IF days # {} THEN days ELSE ClockDays),
              hour |-> first(ClockHours)]

\* Whole hours from a to b, b less than a week after a.
HoursBetween(a, b) ==
    (((b.weekday - a.weekday) * HoursPerDay + b.hour - a.hour)
        + DaysPerWeek * HoursPerDay) % (DaysPerWeek * HoursPerDay)

\* Whether the program in use lets the process run at instant t.
Allowed(s, t) ==
    IF s = "package"
    THEN check_time(t, ALLOWED_PERIOD.weekday, ALLOWED_PERIOD.hour_start, ALLOWED_PERIOD.hour_end)
    ELSE ~legacy_check_time(t)

\* ------------------------------------------------------------------ state
VARIABLES
    script,     \* which program runs: "package" or "legacy"
    now,        \* local time: [weekday, hour]
    steam_dir,  \* os.path.isdir(STEAM_DIR)
    pidfile,    \* the PID file: [kind, pid], kind "missing", "unreadable", "garbage" or "int"
    procs,      \* process table: PID -> "none" or the name of the process
    pc,         \* position of the daemon
    caller,     \* who invoked monitor(): "startup" or "event"
    allowed,    \* what the time check of the current invocation reported
    pid,        \* local of monitor(): the PID read from the file
    handle,     \* local of monitor(): the psutil.Process, None or Some([pid, gone])
    queue,      \* filesystem events waiting for the observer thread
    watch,      \* the inotify watch on the PID file: "off" before
                \* observer.start(), then "on", and "gone" when the kernel
                \* holds no watch (not added, or the file was unlinked)
    timers,     \* callbacks pending in the asyncio loop (the loop is never run)
    log,        \* what terminate_proc did in the current invocation, in order
    err,        \* the exception that ended the daemon, "" while there is none
    probe       \* inputs and result of a pure function under test

vars == <<script, now, steam_dir, pidfile, procs, pc, caller, allowed, pid,
          handle, queue, watch, timers, log, err, probe>>

env == <<steam_dir, pidfile, procs>>
locals == <<pid, handle>>

Missing == [kind |-> "missing", pid |-> 0]
FileContents == {[kind |-> k, pid |-> 0] : k \in {"unreadable", "garbage"}}
                \cup {[kind |-> "int", pid |-> p] : p \in PIDs}
IntFile(p) == [kind |-> "int", pid |-> p]
MonitorPcs == {"monitor", "read_pidfile", "pid_exists", "proc_name", "notify",
               "terminate", "wait", "kill", "ret"}
Stopped == pc \in {"exited", "crashed"}
\* The observer thread runs from observer.start() until an exception ends it.
Observing == caller = "event" /\ (pc = "idle" \/ pc \in MonitorPcs)

Init ==
    /\ script \in {"package", "legacy"}
    /\ now \in ClockInstants
    /\ steam_dir \in BOOLEAN
    /\ pidfile \in {Missing} \cup FileContents
    /\ (~steam_dir => pidfile = Missing)
    /\ (script = "legacy" => steam_dir)
    /\ procs \in [PIDs -> {"none", STEAM_NAME, OTHER_NAME}]
    /\ pc = "main"
    /\ caller = "startup"
    /\ allowed = FALSE
    /\ pid = None
    /\ handle = None
    /\ queue = <<>>
    /\ watch = "off"
    /\ timers = {}
    /\ log = <<>>
    /\ err = ""
    /\ probe = None

\* ------------------------------------------------------------ environment

\* The observer thread runs and the kernel still watches the file.
Watching == Observing /\ watch = "on"

Event(type) == [type |-> type, src_path |-> STEAM_PIDFILE]

\* The events that follow when the watched file is unlinked.  The kernel ends
\* the watch with IN_ATTRIB, IN_DELETE_SELF, IN_IGNORED; watchdog either
\* reports the first to on_modified or drops it, and either reports the second
\* to on_deleted or drops it.
UnlinkEvents ==
    {<<>>, <<Event("modified")>>, <<Event("deleted")>>,
     <<Event("modified"), Event("deleted")>>}

\* The watched file is unlinked: the watch is gone.
Unlinked ==
    IF Watching
    THEN /\ watch' = "gone"
         /\ \E es \in UnlinkEvents :
              Len(queue) + Len(es) <= MaxQueue /\ queue' = queue \o es
    ELSE watch' = watch /\ queue' = queue

\* A write in place of the watched file: the watch stays.  IN_MODIFY is
\* reported to on_modified as one more event, or is merged with an equal
\* event that is still waiting at the end of the queue.
Modified ==
    /\ watch' = watch
    /\ \/ /\ Len(queue) < MaxQueue
          /\ queue' = Append(queue, Event("modified"))
       \/ /\ queue # <<>> /\ queue[Len(queue)] = Event("modified")
          /\ queue' = queue

\* What writing the PID file does to the watch and to the queue.  The watch is
\* on the file itself: a write in place keeps it; a replacement by rename
\* unlinks the watched file; a write that creates the file, or one after the
\* watch has ended, gives no event.
Written ==
    IF Watching /\ pidfile # Missing
    THEN Modified \/ Unlinked
    ELSE queue' = queue /\ watch' = watch

\* A handle to a process that exits is a handle to a gone process, also when
\* the PID is reused later (terminate() and kill() compare creation times).
Gone(p) == {IF h.pid = p THEN [h EXCEPT !.gone = TRUE] ELSE h : h \in handle}

\* A pending callback is the whole hours left until it is due, 0 once it is
\* due (call_later with a delay <= 0 is due at once).
Timer(delay) == [left |-> IF delay > 0 THEN delay \div SecondsPerHour ELSE 0]
Elapse(ts, n) == {[t EXCEPT !.left = IF t.left > n THEN t.left - n ELSE 0] : t \in ts}

\* Time passes until the next clock reading.
Tick ==
    /\ ~Stopped
    /\ now' = NextInstant(now)
    /\ timers' = Elapse(timers, HoursBetween(now, now'))
    /\ UNCHANGED <<script, watch, env, pc, caller, allowed, locals, queue, log, err, probe>>

\* Steam starts with PID p and writes its PID file.
SteamStart(p) ==
    /\ ~Stopped /\ steam_dir
    /\ procs[p] = "none"
    /\ procs' = [procs EXCEPT ![p] = STEAM_NAME]
    /\ pidfile' = IntFile(p)
    /\ Written
    /\ UNCHANGED <<script, now, steam_dir, pc, caller, allowed, locals, timers, log, err, probe>>

\* Another program starts with PID p.
OtherStart(p) ==
    /\ ~Stopped
    /\ procs[p] = "none"
    /\ procs' = [procs EXCEPT ![p] = OTHER_NAME]
    /\ UNCHANGED <<script, watch, now, steam_dir, pidfile, pc, caller, allowed, locals, queue, timers, log, err, probe>>

\* The process with PID p exits, by itself or as its answer to a signal.
ProcExit(p) ==
    /\ ~Stopped
    /\ procs[p] # "none"
    /\ procs' = [procs EXCEPT ![p] = "none"]
    /\ handle' = Gone(p)
    /\ UNCHANGED <<script, watch, now, steam_dir, pidfile, pc, caller, allowed, pid, queue, timers, log, err, probe>>

\* Something writes v to the PID file (v may be what it holds already).
PidfileWrite(v) ==
    /\ ~Stopped /\ steam_dir
    /\ pidfile' = v
    /\ Written
    /\ UNCHANGED <<script, now, steam_dir, procs, pc, caller, allowed, locals, timers, log, err, probe>>

\* The PID file is deleted.
PidfileDelete ==
    /\ ~Stopped
    /\ pidfile # Missing
    /\ pidfile' = Missing
    /\ Unlinked
    /\ UNCHANGED <<script, now, steam_dir, procs, pc, caller, allowed, locals, timers, log, err, probe>>

\* ------------------------------------------------------------- the daemon

\* The memory of the program: it is lost when the program ends.
memory == <<allowed, pid, handle, queue, timers>>
Forget ==
    /\ allowed' = FALSE /\ pid' = None /\ handle' = None
    /\ queue' = <<>> /\ timers' = {}

\* An exception nothing catches: in main() it ends the program, in a handler
\* it ends the observer thread, observer.join() returns and main() ends.
Raise(e) == pc' = "crashed" /\ err' = e /\ Forget

\* No exception: the daemon goes on at position p.
Goto(p) == pc' = p /\ err' = err

\* Mutant of check_steam: main() does not exit when check_steam() is False.
check_steam_no_exit ==
    /\ pc = "main" /\ script = "package"
    /\ pc' = "monitor" /\ UNCHANGED memory
    /\ UNCHANGED <<script, watch, now, env, caller, log, err, probe>>

\* main() of the package up to the first sched_monitor: check_steam().
check_steam ==
    /\ pc = "main" /\ script = "package"
    /\ IF steam_dir /\ pidfile # Missing
       THEN pc' = "monitor" /\ UNCHANGED memory
       ELSE pc' = "exited" /\ Forget
    /\ UNCHANGED <<script, watch, now, env, caller, log, err, probe>>

\* main() of the legacy script: check() with no check before it.
legacy_main ==
    /\ pc = "main" /\ script = "legacy"
    /\ pc' = "monitor"
    /\ UNCHANGED <<script, watch, now, env, caller, memory, log, err, probe>>

\* Mutant of monitor: the sense of the time check is inverted (the two
\* programs return opposite senses from check_time).
monitor_inverted ==
    /\ pc = "monitor"
    /\ allowed' = Allowed(script, now)
    /\ pc' = IF Allowed(script, now) THEN "read_pidfile" ELSE "ret"
    /\ UNCHANGED <<script, watch, now, env, caller, locals, queue, timers, log, err, probe>>

\* monitor() / check(): the time check.
monitor ==
    /\ pc = "monitor"
    /\ allowed' = Allowed(script, now)
    /\ pc' = IF Allowed(script, now) THEN "ret" ELSE "read_pidfile"
    /\ UNCHANGED <<script, watch, now, env, caller, locals, queue, timers, log, err, probe>>

\* read_pidfile(): the package catches nothing; the legacy script catches
\* FileNotFoundError and IOError and then returns None.
read_pidfile ==
    /\ pc = "read_pidfile"
    /\ CASE pidfile.kind = "int" ->
                Goto("pid_exists") /\ pid' = Some(pidfile.pid)
                /\ UNCHANGED <<allowed, handle, queue, timers>>
         [] pidfile.kind = "garbage" ->
                Raise("ValueError")
         [] pidfile.kind = "missing" ->
                IF script = "legacy"
                THEN Goto("pid_exists") /\ UNCHANGED memory
                ELSE Raise("FileNotFoundError")
         [] pidfile.kind = "unreadable" ->
                IF script = "legacy"
                THEN Goto("pid_exists") /\ UNCHANGED memory
                ELSE Raise("PermissionError")
    /\ UNCHANGED <<script, watch, now, env, caller, log, probe>>

\* check_proc(), first line: psutil.pid_exists(pid); pid_exists(None) compares
\* None with 0 and raises TypeError.
check_proc_pid_exists ==
    /\ pc = "pid_exists"
    /\ IF pid = None THEN Raise("TypeError")
       ELSE /\ Goto(IF pid_exists(procs, The(pid)) THEN "proc_name" ELSE "ret")
            /\ UNCHANGED memory
    /\ UNCHANGED <<script, watch, now, env, caller, log, probe>>

\* check_proc(), the rest: psutil.Process(pid) raises NoSuchProcess when the
\* process is gone by now; the name is compared with "steam".
check_proc_name ==
    /\ pc = "proc_name"
    /\ IF ~pid_exists(procs, The(pid))
       THEN Raise("NoSuchProcess")
       ELSE IF name_matches(procs, The(pid), STEAM_NAME)
       THEN /\ Goto(IF script = "package" THEN "notify" ELSE "terminate")
            /\ handle' = Some([pid |-> The(pid), gone |-> FALSE])
            /\ UNCHANGED <<allowed, pid, queue, timers>>
       ELSE Goto("ret") /\ UNCHANGED memory
    /\ UNCHANGED <<script, watch, now, env, caller, log, probe>>

\* What subprocess.run(["notify-send", ...], check=True) can do.
NotifyOutcomes == {"ok", "OSError", "CalledProcessError"}

\* notify_desktop(): only OSError is caught.
notify_desktop ==
    /\ pc = "notify"
    /\ \E outcome \in NotifyOutcomes :
         /\ log' = Append(log, "notify:" \o outcome)
         /\ IF outcome = "CalledProcessError"
            THEN Raise("CalledProcessError")
            ELSE Goto("terminate") /\ UNCHANGED memory
    /\ UNCHANGED <<script, watch, now, env, caller, probe>>

\* terminate_proc(): proc.terminate().
terminate_proc_terminate ==
    /\ pc = "terminate"
    /\ log' = Append(log, "SIGTERM")
    /\ IF The(handle).gone THEN Raise("NoSuchProcess")
       ELSE Goto("wait") /\ UNCHANGED memory
    /\ UNCHANGED <<script, watch, now, env, caller, probe>>

\* The clock readings a wait of PROC_TERM_TIMEOUT seconds can end at: the
\* same hour, or the next one.
AfterTimeout(t) ==
    {t} \cup (IF PROC_TERM_TIMEOUT > 0 THEN {NextHour(t)} \cap ClockInstants ELSE {})

\* Mutant of terminate_proc_wait: proc.kill() sits in the else branch, so it
\* runs when the wait returns and not when it times out.
terminate_proc_wait_swapped ==
    /\ pc = "wait"
    /\ IF ~pid_exists(procs, The(handle).pid)
       THEN /\ log' = Append(log, "exited")
            /\ pc' = "kill"
            /\ now' = now
       ELSE /\ log' = Append(log, "TimeoutExpired")
            /\ pc' = "ret"
            /\ now' \in AfterTimeout(now)
    /\ timers' = Elapse(timers, HoursBetween(now, now'))
    /\ UNCHANGED <<script, watch, env, caller, allowed, locals, queue, err, probe>>

\* terminate_proc(): proc.wait(PROC_TERM_TIMEOUT).  The process is not a
\* child of the daemon, so psutil polls whether the PID exists (creation
\* times are not compared): the wait returns when no process has the PID and
\* raises TimeoutExpired after the timeout while one has it, be it a zombie
\* or a new process that took the PID.
terminate_proc_wait ==
    /\ pc = "wait"
    /\ IF ~pid_exists(procs, The(handle).pid)
       THEN /\ log' = Append(log, "exited")
            /\ pc' = "ret"
            /\ now' = now
       ELSE /\ log' = Append(log, "TimeoutExpired")
            /\ pc' = "kill"
            /\ now' \in AfterTimeout(now)
    /\ timers' = Elapse(timers, HoursBetween(now, now'))
    /\ UNCHANGED <<script, watch, env, caller, allowed, locals, queue, err, probe>>

\* terminate_proc(): proc.kill() in the except branch.  kill() sends SIGKILL
\* and returns: the process ends afterwards (ProcExit), or stays in the
\* process table as a zombie while its parent does not reap it.
terminate_proc_kill ==
    /\ pc = "kill"
    /\ log' = Append(log, "SIGKILL")
    /\ IF The(handle).gone
       THEN Raise("NoSuchProcess")
       ELSE Goto("ret") /\ UNCHANGED memory
    /\ UNCHANGED <<script, watch, now, env, caller, probe>>

\* Mutant of monitor_return: pid and proc are kept from one invocation to the
\* next, as globals would be.
monitor_return_cached ==
    /\ pc = "ret"
    /\ pc' = IF caller = "event" THEN "idle"
             ELSE IF caller \in {"first", "second"} THEN "returned"
             ELSE IF script = "package" THEN "sched" ELSE "observer"
    /\ log' = <<>>
    /\ allowed' = FALSE
    /\ UNCHANGED <<script, watch, now, env, caller, locals, queue, timers, err, probe>>

\* monitor() returns to its caller: sched_monitor at startup (check() in
\* main() of the legacy script) or the observer thread.
monitor_return ==
    /\ pc = "ret"
    /\ pc' = IF caller = "event" THEN "idle"
             ELSE IF caller \in {"first", "second"} THEN "returned"
             ELSE IF script = "package" THEN "sched" ELSE "observer"
    /\ log' = <<>>
    /\ pid' = None /\ handle' = None /\ allowed' = FALSE
    /\ UNCHANGED <<script, watch, now, env, caller, queue, timers, err, probe>>

\* sched_monitor() after monitor(): loop.call_later(delay, sched_monitor, loop).
sched_monitor ==
    /\ pc = "sched"
    /\ timers' = timers \cup {Timer(calc_time_to_end(now))}
    /\ pc' = "observer"
    /\ UNCHANGED <<script, watch, now, env, caller, allowed, locals, queue, log, err, probe>>

\* main(): Observer(), schedule(), start(), join().  The watch is put on
\* the PID file itself: adding it fails with OSError when the file is not
\* there.  Adding it needs read permission: for a file the daemon may not
\* read it fails with EACCES, and start() either raises OSError or goes on
\* with no watch.  The asyncio loop is created and never run: nothing
\* executes the callbacks in timers.
observer_start ==
    /\ pc = "observer"
    /\ CASE pidfile.kind = "missing" ->
                Raise("OSError") /\ caller' = caller /\ watch' = watch
         [] pidfile.kind = "unreadable" ->
                \/ Raise("OSError") /\ caller' = caller /\ watch' = watch
                \/ Goto("idle") /\ caller' = "event" /\ watch' = "gone"
                   /\ UNCHANGED memory
         [] OTHER ->
                Goto("idle") /\ caller' = "event" /\ watch' = "on"
                /\ UNCHANGED memory
    /\ UNCHANGED <<script, now, env, log, probe>>

\* The observer thread takes the next event: on_created and on_modified call
\* monitor() when src_path is the PID file, other events do nothing.
dispatch ==
    /\ pc = "idle" /\ queue # <<>>
    /\ queue' = Tail(queue)
    /\ pc' = IF /\ Head(queue).type \in {"created", "modified"}
                /\ Head(queue).src_path = STEAM_PIDFILE
             THEN "monitor" ELSE "idle"
    /\ UNCHANGED <<script, watch, now, env, caller, allowed, locals, timers, log, err, probe>>

Daemon ==
    \/ check_steam \/ legacy_main \/ monitor \/ read_pidfile
    \/ check_proc_pid_exists \/ check_proc_name \/ notify_desktop
    \/ terminate_proc_terminate \/ terminate_proc_wait \/ terminate_proc_kill
    \/ monitor_return \/ sched_monitor \/ observer_start \/ dispatch

Environment ==
    \/ Tick
    \/ \E p \in PIDs : SteamStart(p) \/ OtherStart(p) \/ ProcExit(p)
    \/ \E v \in FileContents : PidfileWrite(v)
    \/ PidfileDelete

Next == Daemon \/ Environment

Spec == Init /\ [][Next]_vars

\* The threads of the daemon are scheduled and time passes; nothing is
\* assumed of the processes and files around it.
FairSpec == Spec /\ WF_vars(Daemon) /\ WF_vars(Tick)

\* ------------------------------------------------- check_time on its own

\* A call of check_time(weekday, hour_start, hour_end) at local time t.
CheckTimeCalls ==
    [t : Instants, weekday : Weekdays, hour_start : ClockHours, hour_end : ClockHours,
     done : {FALSE}, result : {FALSE}]

InitCheckTime ==
    /\ probe \in {Some(c) : c \in CheckTimeCalls}
    /\ script = "package"
    /\ now \in {The(probe).t}
    /\ steam_dir = TRUE
    /\ pidfile = Missing
    /\ procs = [p \in PIDs |-> "none"]
    /\ pc = "check_time"
    /\ caller = "startup"
    /\ allowed = FALSE
    /\ pid = None
    /\ handle = None
    /\ queue = <<>>
    /\ watch = "off"
    /\ timers = {}
    /\ log = <<>>
    /\ err = ""

\* check_time is called and returns.
call_check_time ==
    /\ pc = "check_time"
    /\ \E c \in probe :
         /\ ~c.done
         /\ probe' = Some([c EXCEPT !.done = TRUE,
                                    !.result = check_time(c.t, c.weekday, c.hour_start, c.hour_end)])
    /\ UNCHANGED <<script, watch, now, env, pc, caller, allowed, locals, queue, timers, log, err>>

SpecCheckTime == InitCheckTime /\ [][call_check_time]_vars

\* --------------------------------------------- calc_time_to_end on its own

\* The minutes past the hour at which calc_time_to_end is called.
ClockMinutes == {0, 30, 59}

\* A call of calc_time_to_end() at local time t, seconds 0.
CalcTimeCalls ==
    [t : [weekday : Weekdays, hour : Hours, minute : ClockMinutes],
     done : {FALSE}, result : {0}]

InitCalcTime ==
    /\ probe \in {Some(c) : c \in CalcTimeCalls}
    /\ script = "package"
    /\ now \in {[weekday |-> The(probe).t.weekday, hour |-> The(probe).t.hour]}
    /\ steam_dir = TRUE
    /\ pidfile = Missing
    /\ procs = [p \in PIDs |-> "none"]
    /\ pc = "calc_time_to_end"
    /\ caller = "startup"
    /\ allowed = FALSE
    /\ pid = None
    /\ handle = None
    /\ queue = <<>>
    /\ watch = "off"
    /\ timers = {}
    /\ log = <<>>
    /\ err = ""

\* calc_time_to_end is called and returns: "end" keeps the minute and the
\* second of "now", so (end - now) does not depend on them.
call_calc_time_to_end ==
    /\ pc = "calc_time_to_end"
    /\ \E c \in probe :
         /\ ~c.done
         /\ probe' = Some([c EXCEPT !.done = TRUE, !.result = calc_time_to_end(c.t)])
    /\ UNCHANGED <<script, watch, now, env, pc, caller, allowed, locals, queue, timers, log, err>>

SpecCalcTime == InitCalcTime /\ [][call_calc_time_to_end]_vars

\* ------------------------------------------- monitor() twice in succession

\* monitor() (check() in the legacy script) is about to be called, outside
\* the allowed window, by a caller that will call it a second time.
InitTwice ==
    /\ script \in {"package", "legacy"}
    /\ now \in {t \in ClockInstants : ~Allowed(script, t)}
    /\ steam_dir = TRUE
    /\ pidfile \in {Missing} \cup FileContents
    /\ procs \in [PIDs -> {"none", STEAM_NAME, OTHER_NAME}]
    /\ pc = "monitor"
    /\ caller = "first"
    /\ allowed = FALSE
    /\ pid = None
    /\ handle = None
    /\ queue = <<>>
    /\ watch = "off"
    /\ timers = {}
    /\ log = <<>>
    /\ err = ""
    /\ probe = None

\* The first call has returned: the second call is made.
call_again ==
    /\ pc = "returned" /\ caller = "first"
    /\ pc' = "monitor" /\ caller' = "second"
    /\ UNCHANGED <<script, watch, now, env, allowed, locals, queue, timers, log, err, probe>>

NextTwice ==
    \/ monitor \/ read_pidfile \/ check_proc_pid_exists \/ check_proc_name
    \/ notify_desktop \/ terminate_proc_terminate \/ terminate_proc_wait
    \/ terminate_proc_kill \/ monitor_return \/ call_again
    \/ \E p \in PIDs : ProcExit(p)

SpecTwice == InitTwice /\ [][NextTwice]_vars

\* ------------------------------------------------------------- properties

TerminatePcs == {"notify", "terminate", "wait", "kill"}
Has(l, e) == \E i \in DOMAIN l : l[i] = e
IsNotify(e) == e \in {"notify:" \o o : o \in NotifyOutcomes}
\* A steam process runs under the PID the PID file holds.
SteamRunning == pidfile.kind = "int" /\ procs[pidfile.pid] = STEAM_NAME

\* The allowed window closes: now is inside it and the next clock reading is not.
WindowCloses == Allowed(script, now) /\ ~Allowed(script, NextInstant(now))

\* C1 as claimed: after a successful startup of the package, a steam process
\* that runs under the PID of the PID file when the allowed window closes and
\* keeps running is eventually sent SIGTERM, also when no event arrives.
C1_EventuallyTerminated ==
    (script = "package" /\ pc = "idle" /\ queue = <<>> /\ SteamRunning /\ WindowCloses)
        ~> (Has(log, "SIGTERM") \/ ~SteamRunning \/ queue # <<>>)

\* C2: in an invocation of monitor() (check() in the legacy script) whose time
\* check reports that now is inside the allowed window, no notification and
\* no signal is sent, whatever the PID file holds and whatever runs.
C2_NothingSentInsideWindow ==
    (pc \in MonitorPcs /\ allowed) => (log = <<>> /\ handle = None /\ pc = "ret")

\* C2 witness: the time check said "inside" while steam runs under the PID of
\* the PID file, and the invocation ends having done nothing.
C2_Witness ==
    pc = "ret" /\ allowed /\ SteamRunning /\ log = <<>>

\* C3: outside the window terminate_proc is entered only from the check_proc
\* step that sees a live process named "steam" under the PID read from the
\* file, and nothing is notified or signalled outside terminate_proc.
C3_OnlyMatchingProcess ==
    [][ /\ (pc' \in TerminatePcs /\ pc \notin TerminatePcs) =>
             /\ pc = "proc_name" /\ ~allowed
             /\ pid_exists(procs, The(pid)) /\ procs[The(pid)] = STEAM_NAME
             /\ handle' = Some([pid |-> The(pid), gone |-> FALSE])
        /\ (log' # log /\ log' # <<>>) => pc \in TerminatePcs
      ]_vars

\* C3 witness: the PID read from the file belongs to another program (a
\* reused PID), and the invocation ends having sent nothing.
C3_Witness ==
    /\ pc = "ret" /\ ~allowed /\ pid # None /\ log = <<>>
    /\ \E p \in pid : procs[p] = OTHER_NAME

\* C4: in a terminate_proc call SIGKILL comes only after SIGTERM and after
\* the wait timed out, it is the last thing done, and once the wait has timed
\* out it is sent exactly once; when the process exits within the grace
\* period SIGKILL is not sent.
C4_TermBeforeKill ==
    /\ \A i \in DOMAIN log :
         /\ log[i] = "SIGKILL" =>
              /\ i = Len(log) /\ i > 2
              /\ log[i - 1] = "TimeoutExpired" /\ log[i - 2] = "SIGTERM"
         /\ log[i] \in {"TimeoutExpired", "exited"} => (i > 1 /\ log[i - 1] = "SIGTERM")
         /\ log[i] = "exited" => i = Len(log)
         /\ log[i] = "TimeoutExpired" =>
              /\ i = Len(log) <=> pc = "kill"
              /\ i < Len(log) => log[i + 1] = "SIGKILL"
    /\ Cardinality({i \in DOMAIN log : log[i] = "SIGTERM"}) <= 1

\* C4 witness: the process ignored SIGTERM, the wait timed out and SIGKILL
\* was sent.
C4_Witness ==
    pc = "ret" /\ log # <<>> /\ log[Len(log)] = "SIGKILL"

\* C5: check_time is TRUE exactly when the weekday is the window's and the
\* hour lies in [hour_start, hour_end], both ends included; with the default
\* window Saturday 18 is inside, Saturday 19 and Sunday 12 are outside.
C5_CheckTimeIff ==
    \A c \in probe :
        c.done =>
            /\ c.result <=> (c.t.weekday = c.weekday /\ c.hour_start <= c.t.hour
                                /\ c.t.hour <= c.hour_end)
            /\ ([weekday |-> c.weekday, hour_start |-> c.hour_start, hour_end |-> c.hour_end]
                    = ALLOWED_PERIOD) =>
                 /\ c.t = [weekday |-> 5, hour |-> 18] => c.result
                 /\ c.t = [weekday |-> 5, hour |-> 19] => ~c.result
                 /\ c.t = [weekday |-> 6, hour |-> 12] => ~c.result

\* C5 witness: check_time has answered TRUE for the last hour of a window.
C5_Witness ==
    \E c \in probe : c.done /\ c.result /\ c.t.hour = c.hour_end /\ c.hour_start < c.hour_end

\* C6 as claimed: a missing, unreadable or non-integer PID file never makes an
\* error escape monitor().
C6_BadPidfileIsNoProcess ==
    err \notin {"FileNotFoundError", "PermissionError", "ValueError", "TypeError"}

\* C7 as claimed: whatever the notification does, SIGTERM follows it.
C7_NotifyFailureNotFatal ==
    \A i \in DOMAIN log :
        (IsNotify(log[i]) /\ pc # "terminate") => (i < Len(log) /\ log[i + 1] = "SIGTERM")

\* A callback of the asyncio loop is due.
DueTimer == \E t \in timers : t.left = 0

\* C8 as claimed: the callback sched_monitor schedules is executed when it is
\* due, with no filesystem event needed.
C8_TimerFires ==
    (pc = "idle" /\ queue = <<>> /\ DueTimer) ~> (~DueTimer \/ queue # <<>>)

\* C9 as claimed: the delay sched_monitor passes to call_later is positive.
C9_DelayPositive ==
    pc = "sched" => calc_time_to_end(now) > 0

\* C10 as claimed: when monitor() is called twice in succession outside the
\* window and nothing outside changes the PID file or the process table, the
\* second call notifies and signals nothing.
C10_SecondCallNoOp ==
    (caller = "second" /\ pc \in MonitorPcs) => (log = <<>> /\ pc \notin TerminatePcs)

\* C11 as claimed: after a startup of the package that passes check_steam,
\* monitor() runs once before the observer is started, it is the only
\* invocation made at startup, and when it finds steam running outside the
\* window it sends SIGTERM with no event and no timer needed.
C11_StartupMonitorTerminates ==
    [][ (script = "package") =>
          /\ (pc = "main" /\ pc' \notin {"main", "exited"}) =>
                (pc' = "monitor" /\ caller' = "startup")
          /\ (pc' = "monitor" /\ caller' = "startup") => pc \in {"main", "monitor"}
          /\ (caller = "startup" /\ caller' = "event") => (pc = "observer" /\ queue = <<>>)
          /\ (caller = "startup" /\ pc = "notify" /\ pc' # pc) =>
                (pc' = "terminate" /\ timers = {} /\ queue = <<>>)
          /\ (caller = "startup" /\ pc = "terminate" /\ pc' # pc) => Has(log', "SIGTERM")
      ]_vars

\* C12: when ~/.steam is absent the package daemon goes from main() to its
\* exit and nowhere else: monitor() is not invoked, no callback is scheduled,
\* the observer is not started, nothing is notified and nothing signalled.
C12_NoSteamDirExits ==
    (script = "package" /\ ~steam_dir) =>
        /\ pc \in {"main", "exited"}
        /\ caller = "startup" /\ timers = {} /\ queue = <<>>
        /\ log = <<>> /\ pid = None /\ handle = None /\ err = ""

\* C12 witness: the daemon has exited with no ~/.steam, outside the window,
\* while a process named steam runs.
C12_Witness ==
    /\ script = "package" /\ ~steam_dir /\ pc = "exited"
    /\ ~Allowed(script, now) /\ \E p \in PIDs : procs[p] = STEAM_NAME

\* Seconds from t to the first instant after t that is on the weekday of the
\* window at hour_end o'clock sharp.
SecondsToWindowEnd(t, ap) ==
    LET week == DaysPerWeek * HoursPerDay * SecondsPerHour
        days == (ap.weekday - t.weekday + DaysPerWeek) % DaysPerWeek
        d == (days * HoursPerDay + ap.hour_end - t.hour) * SecondsPerHour
                 - t.minute * SecondsPerMinute
    IN  IF d > 0 THEN d ELSE d + week

\* C13 as claimed: calc_time_to_end returns a positive delay that leads to the
\* next Saturday 18:00:00 after now, whatever the minute, also on a Saturday
\* after 18:00.
C13_DelayToNextWindowEnd ==
    \A c \in probe :
        c.done => (c.result > 0 /\ c.result = SecondsToWindowEnd(c.t, ALLOWED_PERIOD))

\* The first sched_monitor call of main() is over: it returned, or an
\* exception left it.
SchedMonitorDone ==
    /\ script = "package"
    /\ \/ pc \in {"observer", "idle"}
       \/ caller = "event"
       \/ pc = "crashed"

\* C14 as claimed: once the first sched_monitor call is over exactly one
\* callback is pending, also when monitor() failed inside sched_monitor.
C14_ExactlyOneTimer ==
    SchedMonitorDone => Cardinality(timers) = 1

\* C15 as claimed: the target process exiting at any point of a monitor()
\* invocation makes the termination attempt a no-op: NoSuchProcess does not
\* escape monitor() and does not end the daemon.
C15_ExitedProcessIsNoOp ==
    ~(pc = "crashed" /\ err = "NoSuchProcess")

\* An event the handlers answer with monitor(): a creation or a modification
\* whose path is the PID file.
ForMonitor(e) == e.type \in {"created", "modified"} /\ e.src_path = STEAM_PIDFILE

\* C16 as claimed: while the observer thread of the package runs, every
\* creation or modification of the PID file reaches the handlers (an event
\* for it is queued, or an equal event waits at the end of the queue already;
\* the write that replaces the watched file by rename is left aside, what
\* watchdog reports for it is not known); events leave the
\* queue one at a time, in order; taking a creation or modification of the
\* PID file starts one monitor() invocation, taking any other event starts
\* none, and an invocation starts in no other way.
C16_EventsInvokeMonitor ==
    [][ (script = "package" /\ caller = "event" /\ caller' = "event") =>
          /\ (pidfile' # pidfile /\ pidfile' # Missing /\ watch' = watch) =>
                 (queue' # <<>> /\ ForMonitor(queue'[Len(queue')])
                    /\ (Len(queue') > Len(queue) \/ queue' = queue))
          /\ (pc' = "monitor" /\ pc # "monitor") =>
                 /\ pc = "idle" /\ queue # <<>>
                 /\ ForMonitor(Head(queue)) /\ queue' = Tail(queue)
          /\ (queue' # queue /\ pc' # "crashed") =>
                 \/ Len(queue') > Len(queue) /\ SubSeq(queue', 1, Len(queue)) = queue
                 \/ /\ pc = "idle" /\ queue # <<>> /\ queue' = Tail(queue)
                    /\ pc' = IF ForMonitor(Head(queue)) THEN "monitor" ELSE "idle"
      ]_vars

\* C17 as claimed: with ~/.steam present and steam.pid missing at startup the
\* package daemon does not exit: it goes on to start the observer.
C17_MissingPidfileKeepsRunning ==
    (script = "package" /\ steam_dir) => pc # "exited"

\* A step that sends a signal.
SendsSignal == log' # log /\ log' # <<>> /\ log'[Len(log')] \in {"SIGTERM", "SIGKILL"}

\* C18: a signal goes to the process of the handle built, in this invocation,
\* from the PID read from the PID file in this invocation: an invocation
\* begins with no PID and no handle, the PID is set only by read_pidfile to
\* what the file holds then, the handle only by check_proc to a live process
\* with that PID, and neither is replaced while the invocation lasts.
C18_SignalsPidReadNow ==
    [][ /\ SendsSignal =>
             /\ pid # None /\ handle # None /\ The(handle).pid = The(pid)
             /\ pc' # "crashed" => (pid' = pid /\ The(handle').pid = The(pid))
        /\ (pc' = "monitor" /\ pc # "monitor") => (pid' = None /\ handle' = None)
        /\ (pid' # pid /\ pid' # None) =>
             (pc = "read_pidfile" /\ pid = None /\ pidfile.kind = "int"
                /\ pid' = Some(pidfile.pid))
        /\ (handle = None /\ handle' # None) =>
             (pc = "proc_name" /\ pid # None /\ procs[The(pid)] = STEAM_NAME
                /\ handle' = Some([pid |-> The(pid), gone |-> FALSE]))
        /\ (handle # None /\ handle' # None) => The(handle').pid = The(handle).pid
      ]_vars

\* C18 witness: an invocation made for an event has sent SIGTERM to the
\* process whose PID the file holds now, while a steam process with another
\* PID, which the file held before, runs on untouched.
C18_Witness ==
    /\ caller = "event" /\ pc = "wait"
    /\ \E p1, p2 \in PIDs :
         /\ p1 # p2 /\ pid = Some(p2) /\ pidfile = IntFile(p2)
         /\ The(handle).pid = p2 /\ procs[p1] = STEAM_NAME

\* C19 as claimed: at the instant a signal is sent the clock is outside the
\* allowed window, also when the invocation began just before the window
\* opened.
C19_NoSignalInsideWindow ==
    [][ SendsSignal => ~Allowed(script, now) ]_vars

====
